---- MODULE Spec2Model ----
(***************************************************************************)
(* herbIntel (src/main.py): a read-only HTTP layer over three store tables *)
(* (herbs, phytochemicals, herb_phytochemical) and a reranking service.    *)
(* One request is followed from its first read to its response.  Every     *)
(* read of the store and the rerank call is a step of its own, so that the *)
(* store, which is owned and changed outside the program, can change       *)
(* between two calls of one request (specification SpecMut).               *)
(*                                                                         *)
(* Python lists are sequences, dicts are records or functions, strings     *)
(* that the program inspects or builds are sequences of pieces, and list   *)
(* indices of Python (from 0) are kept as the program sees them.           *)
(***************************************************************************)
EXTENDS Integers, Sequences, FiniteSets, TLC

VARIABLES
    store,        \* the data store: [herbs, phytochemicals, herb_phytochemical], rows in the store's order
    pc,           \* position of the request in flight
    req,          \* [op, arg]: the operation requested and its parameter
    herbs,        \* local `herbs` of the operation running
    compounds,    \* local `compounds` of the operation running
    ids,          \* herb_ids / compound_ids handed to the join helper
    hp_response,  \* hp_response.data inside the join helper
    documents,    \* search: the documents list
    meta,         \* search: the meta list
    rerank,       \* search: rerank.results, rows [index, relevance_score]
    resp,         \* the response: [status, detail, body]
    calls,        \* the outside calls of this request, in order: a table read, or "rerank"
    hist,         \* the states the store went through during this request
    nmut,         \* number of changes made to the store during this request
    raised        \* the error the rerank call raised, as a list of at most one message

vars == <<store, pc, req, herbs, compounds, ids, hp_response, documents, meta,
          rerank, resp, calls, hist, nmut, raised>>

----------------------------------------------------------------------------
(* Bounds of the model. *)

MaxHerbs == 2
MaxCompounds == 2
MaxLinks == 2
MaxSearchHerbs == 3
MaxSearchCompounds == 3
MaxMut == 2

(* Program constants. Relevance scores are floats in the program; here they *)
(* are counted in hundredths, so the threshold 0.2 is 20.                   *)
MinRelevance == 20
TopN == 5
MaxResults == 5

HerbIds == 1..MaxHerbs
CompoundIds == 1..MaxCompounds

\* relevance scores the ranker may attach: below the threshold, at it, and two above
Scores == {10, 20, 30, 40}

\* messages of the errors the rerank call may raise
ErrorMessages == {"timeout", "invalid api key"}

----------------------------------------------------------------------------
(* Values *)

Range(s) == {s[i] : i \in DOMAIN s}

\* names are sequences of characters
HerbNamePool == << <<"A", "b">>, <<"c", "_">>, <<"b", "c">>, <<"C", "a", "b">> >>
CompoundNamePool == << <<"C", "a">>, <<"b", "_">>, <<"a", "b">>, <<"B">> >>

HerbNameOf(i) == HerbNamePool[((i - 1) % Len(HerbNamePool)) + 1]
CompoundNameOf(i) == CompoundNamePool[((i - 1) % Len(CompoundNamePool)) + 1]

\* a row of table herbs
HerbRow(i) ==
    [herb_id |-> i, herb_name |-> HerbNameOf(i), scientific_name |-> <<"sci", i>>,
     uses |-> <<"uses", i>>, origin |-> <<"origin", i>>, source_url |-> <<"hurl", i>>]

\* a row of table phytochemicals
CompoundRow(i) ==
    [compound_id |-> i, compound_name |-> CompoundNameOf(i), function |-> <<"fn", i>>,
     chemical_structure |-> <<"struct", i>>, compound_type |-> <<"type", i>>,
     source_url |-> <<"curl", i>>]

\* a row of table herb_phytochemical
LinkRow(h, c) == [herb_id |-> h, compound_id |-> c]

\* the path parameters requested
Queries == { <<"a">>, <<"B">>, <<"c">>, <<"a", "b">>, <<"_">>, <<"%">>, <<"z">> }

NoResponse == [status |-> 0, detail |-> <<>>, body |-> <<>>]

----------------------------------------------------------------------------
(* The store's filters (PostgREST / PostgreSQL, as the program calls them) *)

Lower(ch) ==
    CASE ch = "A" -> "a"
      [] ch = "B" -> "b"
      [] ch = "C" -> "c"
      [] OTHER -> ch

LowerStr(s) == [i \in DOMAIN s |-> Lower(s[i])]

\* s LIKE p: % matches any run of characters, _ any one character
RECURSIVE Like(_, _)
Like(s, p) ==
    IF p = <<>> THEN s = <<>>
    ELSE IF Head(p) = "%" THEN Like(s, Tail(p)) \/ (s # <<>> /\ Like(Tail(s), p))
    ELSE /\ s # <<>>
         /\ (Head(p) = "_" \/ Head(p) = Head(s))
         /\ Like(Tail(s), Tail(p))

\* column ILIKE pattern
ILike(s, p) == Like(LowerStr(s), LowerStr(p))

\* f"%{name}%"
ContainsPattern(name) == <<"%">> \o name \o <<"%">>

\* supabase.table("herbs").select("*").ilike("herb_name", pattern).execute().data
SelectHerbsIlike(st, pattern) ==
    SelectSeq(st.herbs, LAMBDA h : ILike(h.herb_name, pattern))

\* supabase.table("phytochemicals").select("*").ilike("compound_name", pattern).execute().data
SelectCompoundsIlike(st, pattern) ==
    SelectSeq(st.phytochemicals, LAMBDA c : ILike(c.compound_name, pattern))

\* supabase.table("herb_phytochemical").select("*").in_("herb_id", herb_ids).execute().data
SelectLinksByHerbIds(st, herb_ids) ==
    SelectSeq(st.herb_phytochemical, LAMBDA hp : hp.herb_id \in Range(herb_ids))

\* supabase.table("herb_phytochemical").select("*").in_("compound_id", compound_ids).execute().data
SelectLinksByCompoundIds(st, compound_ids) ==
    SelectSeq(st.herb_phytochemical, LAMBDA hp : hp.compound_id \in Range(compound_ids))

\* supabase.table("phytochemicals").select("*").in_("compound_id", compound_ids).execute().data
SelectCompoundsByIds(st, compound_ids) ==
    SelectSeq(st.phytochemicals, LAMBDA c : c.compound_id \in Range(compound_ids))

\* supabase.table("herbs").select("*").in_("herb_id", herb_ids).execute().data
SelectHerbsByIds(st, herb_ids) ==
    SelectSeq(st.herbs, LAMBDA h : h.herb_id \in Range(herb_ids))

----------------------------------------------------------------------------
(* Helpers of the handlers *)

\* the ascending list of the elements of a set of numbers
AscSeq(S) ==
    CHOOSE s \in [1..Cardinality(S) -> S] :
        \A i, j \in 1..Cardinality(S) : i < j => s[i] < s[j]

\* [h["herb_id"] for h in herbs]
HerbIdsOf(rows) == [i \in DOMAIN rows |-> rows[i].herb_id]

\* [c["compound_id"] for c in compounds]
CompoundIdsOf(rows) == [i \in DOMAIN rows |-> rows[i].compound_id]

\* d.get(k, [])
GetOrEmpty(d, k) == IF k \in DOMAIN d THEN d[k] ELSE <<>>

\* the entry of a compound in a herb's phytochemicals list
CompoundEntry(c) ==
    [compound_name |-> c.compound_name, function |-> c.function,
     compound_type |-> c.compound_type, source_url |-> c.source_url]

\* the entry of a herb in a compound's related_herbs list
HerbEntry(h) ==
    [herb_name |-> h.herb_name, scientific_name |-> h.scientific_name,
     uses |-> h.uses, source_url |-> h.source_url]

\* next((c for c in compounds if c["compound_id"] == id), None): the empty
\* sequence stands for None, the first match is the head otherwise
CompoundsWithId(cs, id) == SelectSeq(cs, LAMBDA c : c.compound_id = id)

HerbsWithId(hs, id) == SelectSeq(hs, LAMBDA h : h.herb_id = id)

\* (changed) the loop ends at the first link row whose compound is missing
RECURSIVE CompoundMap_StopAtMissing(_, _, _)
CompoundMap_StopAtMissing(hps, cs, map) ==
    IF hps = <<>> THEN map
    ELSE LET hp == Head(hps)
             found == CompoundsWithId(cs, hp.compound_id)
         IN  IF found = <<>> THEN map
             ELSE CompoundMap_StopAtMissing(
                      Tail(hps), cs,
                      (hp.herb_id :> Append(GetOrEmpty(map, hp.herb_id),
                                            CompoundEntry(Head(found)))) @@ map)

\* the loop that fills compound_map, one link row at a time
RECURSIVE CompoundMap(_, _, _)
CompoundMap(hps, cs, map) ==
    IF hps = <<>> THEN map
    ELSE LET hp == Head(hps)
             found == CompoundsWithId(cs, hp.compound_id)
             new == IF found # <<>>
                    THEN (hp.herb_id :> Append(GetOrEmpty(map, hp.herb_id),
                                               CompoundEntry(Head(found)))) @@ map
                    ELSE map
         IN  CompoundMap(Tail(hps), cs, new)

\* the loop that fills herb_map, one link row at a time
RECURSIVE HerbMap(_, _, _)
HerbMap(hps, hs, map) ==
    IF hps = <<>> THEN map
    ELSE LET hp == Head(hps)
             found == HerbsWithId(hs, hp.herb_id)
             new == IF found # <<>>
                    THEN (hp.compound_id :> Append(GetOrEmpty(map, hp.compound_id),
                                                   HerbEntry(Head(found)))) @@ map
                    ELSE map
         IN  HerbMap(Tail(hps), hs, new)

\* one record of get_herb's response
HerbRecord(h, compound_map) ==
    [herb_name |-> h.herb_name, scientific_name |-> h.scientific_name,
     uses |-> h.uses, origin |-> h.origin, source_url |-> h.source_url,
     phytochemicals |-> GetOrEmpty(compound_map, h.herb_id)]

\* one record of get_phytochemical's response
CompoundRecord(c, herb_map) ==
    [compound_name |-> c.compound_name, function |-> c.function,
     chemical_structure |-> c.chemical_structure,
     compound_type |-> c.compound_type, source_url |-> c.source_url,
     related_herbs |-> GetOrEmpty(herb_map, c.compound_id)]

\* a handler's return value, sent with status 200
Ok(body) == [status |-> 200, detail |-> <<>>, body |-> body]

\* (changed) nothing matched: an empty list is returned instead of the error
NotFound_AsEmptyList(what) == Ok(<<>>)

\* raise HTTPException(status_code=404, detail=what)
NotFound(what) == [status |-> 404, detail |-> <<what>>, body |-> <<>>]

\* where the join helper returns to
AfterRelatedCompounds == IF req.op = "get_herb" THEN "gh_map" ELSE "done"

AfterRelatedHerbs == IF req.op = "get_phytochemical" THEN "gp_map" ELSE "done"

----------------------------------------------------------------------------
(* GET /herbs/{herb_name} *)

\* get_herb up to the call of get_related_compounds
GetHerb ==
    /\ pc = "idle"
    /\ \E herb_name \in Queries :
         LET data == SelectHerbsIlike(store, ContainsPattern(herb_name)) IN
         /\ req' = [op |-> "get_herb", arg |-> herb_name]
         /\ calls' = <<"herbs">>
         /\ hist' = {store}
         /\ IF data = <<>>
            THEN /\ resp' = NotFound("Herb not found")
                 /\ pc' = "done"
                 /\ UNCHANGED <<herbs, ids>>
            ELSE /\ herbs' = data
                 /\ ids' = HerbIdsOf(data)
                 /\ pc' = "rc_links"
                 /\ UNCHANGED resp
    /\ UNCHANGED <<store, compounds, hp_response, documents, meta, rerank, nmut, raised>>

\* (changed) no early return: the compounds are fetched even without a link
RelatedCompoundsLinks_NoEarlyReturn ==
    /\ pc = "rc_links"
    /\ hp_response' = SelectLinksByHerbIds(store, ids)
    /\ calls' = Append(calls, "herb_phytochemical")
    /\ pc' = "rc_compounds"
    /\ hist' = hist \cup {store}
    /\ UNCHANGED <<store, req, herbs, compounds, ids, documents, meta, rerank, resp, nmut, raised>>

\* get_related_compounds: the read of the links, and the early return
RelatedCompoundsLinks ==
    /\ pc = "rc_links"
    /\ LET data == SelectLinksByHerbIds(store, ids) IN
         /\ hp_response' = data
         /\ calls' = Append(calls, "herb_phytochemical")
         /\ IF data = <<>>
            THEN /\ compounds' = <<>>
                 /\ pc' = AfterRelatedCompounds
            ELSE /\ pc' = "rc_compounds"
                 /\ UNCHANGED compounds
    /\ hist' = hist \cup {store}
    /\ UNCHANGED <<store, req, herbs, ids, documents, meta, rerank, resp, nmut, raised>>

\* get_related_compounds: the read of the compounds the links name
RelatedCompoundsFetch ==
    /\ pc = "rc_compounds"
    /\ compounds' = SelectCompoundsByIds(store, CompoundIdsOf(hp_response))
    /\ calls' = Append(calls, "phytochemicals")
    /\ pc' = AfterRelatedCompounds
    /\ hist' = hist \cup {store}
    /\ UNCHANGED <<store, req, herbs, ids, hp_response, documents, meta, rerank, resp, nmut, raised>>

\* get_herb after the helper: second read of the links, the map, the response
GetHerbAssemble ==
    /\ pc = "gh_map"
    /\ LET rows == SelectLinksByHerbIds(store, ids)
           compound_map == CompoundMap(rows, compounds, <<>>)
       IN  resp' = Ok([i \in DOMAIN herbs |-> HerbRecord(herbs[i], compound_map)])
    /\ calls' = Append(calls, "herb_phytochemical")
    /\ pc' = "done"
    /\ hist' = hist \cup {store}
    /\ UNCHANGED <<store, req, herbs, compounds, ids, hp_response, documents, meta, rerank, nmut, raised>>

\* a call of get_related_compounds on its own
CallRelatedCompounds ==
    /\ pc = "idle"
    /\ \E S \in SUBSET HerbIds :
         /\ req' = [op |-> "get_related_compounds", arg |-> AscSeq(S)]
         /\ ids' = AscSeq(S)
    /\ pc' = "rc_links"
    /\ calls' = <<>>
    /\ hist' = {store}
    /\ UNCHANGED <<store, herbs, compounds, hp_response, documents, meta, rerank, resp, nmut, raised>>

----------------------------------------------------------------------------
(* GET /phytochemicals/{compound_name} *)

\* get_phytochemical up to the call of get_related_herbs
GetPhytochemical ==
    /\ pc = "idle"
    /\ \E compound_name \in Queries :
         LET data == SelectCompoundsIlike(store, ContainsPattern(compound_name)) IN
         /\ req' = [op |-> "get_phytochemical", arg |-> compound_name]
         /\ calls' = <<"phytochemicals">>
         /\ hist' = {store}
         /\ IF data = <<>>
            THEN /\ resp' = NotFound("Compound not found")
                 /\ pc' = "done"
                 /\ UNCHANGED <<compounds, ids>>
            ELSE /\ compounds' = data
                 /\ ids' = CompoundIdsOf(data)
                 /\ pc' = "rh_links"
                 /\ UNCHANGED resp
    /\ UNCHANGED <<store, herbs, hp_response, documents, meta, rerank, nmut, raised>>

\* get_related_herbs: the read of the links, and the early return
RelatedHerbsLinks ==
    /\ pc = "rh_links"
    /\ LET data == SelectLinksByCompoundIds(store, ids) IN
         /\ hp_response' = data
         /\ calls' = Append(calls, "herb_phytochemical")
         /\ IF data = <<>>
            THEN /\ herbs' = <<>>
                 /\ pc' = AfterRelatedHerbs
            ELSE /\ pc' = "rh_herbs"
                 /\ UNCHANGED herbs
    /\ hist' = hist \cup {store}
    /\ UNCHANGED <<store, req, compounds, ids, documents, meta, rerank, resp, nmut, raised>>

\* get_related_herbs: the read of the herbs the links name
RelatedHerbsFetch ==
    /\ pc = "rh_herbs"
    /\ herbs' = SelectHerbsByIds(store, HerbIdsOf(hp_response))
    /\ calls' = Append(calls, "herbs")
    /\ pc' = AfterRelatedHerbs
    /\ hist' = hist \cup {store}
    /\ UNCHANGED <<store, req, compounds, ids, hp_response, documents, meta, rerank, resp, nmut, raised>>

\* get_phytochemical after the helper: second read of the links, the map, the response
GetPhytochemicalAssemble ==
    /\ pc = "gp_map"
    /\ LET rows == SelectLinksByCompoundIds(store, ids)
           herb_map == HerbMap(rows, herbs, <<>>)
       IN  resp' = Ok([i \in DOMAIN compounds |-> CompoundRecord(compounds[i], herb_map)])
    /\ calls' = Append(calls, "herb_phytochemical")
    /\ pc' = "done"
    /\ hist' = hist \cup {store}
    /\ UNCHANGED <<store, req, herbs, compounds, ids, hp_response, documents, meta, rerank, nmut, raised>>

\* a call of get_related_herbs on its own
CallRelatedHerbs ==
    /\ pc = "idle"
    /\ \E S \in SUBSET CompoundIds :
         /\ req' = [op |-> "get_related_herbs", arg |-> AscSeq(S)]
         /\ ids' = AscSeq(S)
    /\ pc' = "rh_links"
    /\ calls' = <<>>
    /\ hist' = {store}
    /\ UNCHANGED <<store, herbs, compounds, hp_response, documents, meta, rerank, resp, nmut, raised>>

----------------------------------------------------------------------------
(* GET /search *)

\* the free texts asked for
SearchTexts == { <<"joint", " ", "pain">> }

Min(a, b) == IF a < b THEN a ELSE b

\* f"Herb: {h['herb_name']}. Uses: {h['uses']}. Origin: {h['origin']}"
HerbDocument(h) == <<"Herb: ", h.herb_name, ". Uses: ", h.uses, ". Origin: ", h.origin>>

\* f"Compound: {c['compound_name']}. Function: {c['function']}. Type: {c['compound_type']}"
CompoundDocument(c) ==
    <<"Compound: ", c.compound_name, ". Function: ", c.function, ". Type: ", c.compound_type>>

HerbMeta(h) ==
    [type |-> "herb", name |-> h.herb_name, info |-> h.uses, source_url |-> h.source_url]

CompoundMeta(c) ==
    [type |-> "compound", name |-> c.compound_name, info |-> c.function,
     source_url |-> c.source_url]

\* the documents list after the two loops: the herbs, then the compounds
BuildDocuments(hs, cs) ==
    [i \in DOMAIN hs |-> HerbDocument(hs[i])] \o [i \in DOMAIN cs |-> CompoundDocument(cs[i])]

\* (changed) the compounds' metadata are appended before the herbs'
BuildMeta_CompoundsFirst(hs, cs) ==
    [i \in DOMAIN cs |-> CompoundMeta(cs[i])] \o [i \in DOMAIN hs |-> HerbMeta(hs[i])]

\* the meta list after the two loops: the herbs, then the compounds
BuildMeta(hs, cs) ==
    [i \in DOMAIN hs |-> HerbMeta(hs[i])] \o [i \in DOMAIN cs |-> CompoundMeta(cs[i])]

\* (changed) the threshold itself passes
IsRelevant_AtThreshold(score) == score >= MinRelevance

\* result.relevance_score > 0.2
IsRelevant(score) == score > MinRelevance

\* the record appended to results for one kept result
ResultRecord(data) ==
    [type |-> data.type, name |-> data.name, info |-> data.info,
     source_url |-> data.source_url]

\* the loop over rerank.results; result.index counts from 0
RECURSIVE CompileResults(_, _, _)
CompileResults(rs, m, results) ==
    IF rs = <<>> THEN results
    ELSE LET result == Head(rs) IN
         CompileResults(Tail(rs), m,
                        IF IsRelevant(result.relevance_score)
                        THEN Append(results, ResultRecord(m[result.index + 1]))
                        ELSE results)

\* results[:5]
FirstResults(results) == SubSeq(results, 1, Min(Len(results), MaxResults))

\* raise HTTPException(status_code=500, detail=f"Cohere error: {str(e)}")
CohereError(e) == [status |-> 500, detail |-> <<"Cohere error: ", e>>, body |-> <<>>]

\* the ranking service: the documents' positions (from 0) by descending score,
\* earlier position first among equal scores
RECURSIVE RankOrder(_, _)
RankOrder(S, score) ==
    IF S = {} THEN <<>>
    ELSE LET best == CHOOSE i \in S :
                        \A j \in S : \/ score[i] > score[j]
                                     \/ (score[i] = score[j] /\ i <= j)
         IN  <<best>> \o RankOrder(S \ {best}, score)

\* the k best rows of a ranking of n documents
RankerReply(n, score, k) ==
    LET order == RankOrder(0..(n - 1), score) IN
    [j \in 1..k |-> [index |-> order[j], relevance_score |-> score[order[j]]]]

\* search: the read of all herbs
Search ==
    /\ pc = "idle"
    /\ \E q \in SearchTexts : req' = [op |-> "search", arg |-> q]
    /\ herbs' = store.herbs
    /\ calls' = <<"herbs">>
    /\ hist' = {store}
    /\ pc' = "s_compounds"
    /\ UNCHANGED <<store, compounds, ids, hp_response, documents, meta, rerank, resp, nmut, raised>>

\* search: the read of all compounds
SearchFetchCompounds ==
    /\ pc = "s_compounds"
    /\ compounds' = store.phytochemicals
    /\ calls' = Append(calls, "phytochemicals")
    /\ hist' = hist \cup {store}
    /\ pc' = "s_documents"
    /\ UNCHANGED <<store, req, herbs, ids, hp_response, documents, meta, rerank, resp, nmut, raised>>

\* search: the two loops that prepare documents and meta
SearchPrepare ==
    /\ pc = "s_documents"
    /\ documents' = BuildDocuments(herbs, compounds)
    /\ meta' = BuildMeta(herbs, compounds)
    /\ pc' = "s_rerank"
    /\ UNCHANGED <<store, req, herbs, compounds, ids, hp_response, rerank, resp, calls, hist, nmut, raised>>

\* co.rerank returns at most the top_n rows asked for
RerankReturns ==
    /\ pc = "s_rerank"
    /\ \E score \in [0..(Len(documents) - 1) -> Scores],
          k \in 0..Min(TopN, Len(documents)) :
         rerank' = RankerReply(Len(documents), score, k)
    /\ calls' = Append(calls, "rerank")
    /\ pc' = "s_results"
    /\ UNCHANGED <<store, req, herbs, compounds, ids, hp_response, documents, meta, resp, hist, nmut, raised>>

\* co.rerank returns more rows than the top_n asked for
RerankReturnsMore ==
    /\ pc = "s_rerank"
    /\ \E score \in [0..(Len(documents) - 1) -> Scores],
          k \in (TopN + 1)..Len(documents) :
         rerank' = RankerReply(Len(documents), score, k)
    /\ calls' = Append(calls, "rerank")
    /\ pc' = "s_results"
    /\ UNCHANGED <<store, req, herbs, compounds, ids, hp_response, documents, meta, resp, hist, nmut, raised>>

\* (changed) on an error of co.rerank the unranked candidates are returned
RerankRaises_FallBack ==
    /\ pc = "s_rerank"
    /\ \E e \in ErrorMessages : raised' = <<e>>
    /\ resp' = Ok(FirstResults(meta))
    /\ calls' = Append(calls, "rerank")
    /\ pc' = "done"
    /\ UNCHANGED <<store, req, herbs, compounds, ids, hp_response, documents, meta, rerank, hist, nmut>>

\* co.rerank raises: the except clause turns the error into a 500
RerankRaises ==
    /\ pc = "s_rerank"
    /\ \E e \in ErrorMessages :
         /\ raised' = <<e>>
         /\ resp' = CohereError(e)
    /\ calls' = Append(calls, "rerank")
    /\ pc' = "done"
    /\ UNCHANGED <<store, req, herbs, compounds, ids, hp_response, documents, meta, rerank, hist, nmut>>

\* (changed) an empty result list is reported as not found, as the lookups do
SearchCompile_NotFoundWhenEmpty ==
    /\ pc = "s_results"
    /\ LET results == CompileResults(rerank, meta, <<>>) IN
         resp' = IF results = <<>> THEN NotFound("No results") ELSE Ok(FirstResults(results))
    /\ pc' = "done"
    /\ UNCHANGED <<store, req, herbs, compounds, ids, hp_response, documents, meta, rerank, calls, hist, nmut, raised>>

\* search: the results loop and the return
SearchCompile ==
    /\ pc = "s_results"
    /\ resp' = Ok(FirstResults(CompileResults(rerank, meta, <<>>)))
    /\ pc' = "done"
    /\ UNCHANGED <<store, req, herbs, compounds, ids, hp_response, documents, meta, rerank, calls, hist, nmut, raised>>

----------------------------------------------------------------------------
(* The contents of the store *)

\* the sequences of at most n distinct elements of S
RECURSIVE DistinctSeqs(_, _)
DistinctSeqs(S, n) ==
    IF n = 0 THEN {<<>>}
    ELSE LET shorter == DistinctSeqs(S, n - 1) IN
         shorter \cup {Append(s, x) : <<s, x>> \in
                          {p \in shorter \X S : p[2] \notin Range(p[1])}}

AllLinkRows == {LinkRow(h, c) : <<h, c>> \in HerbIds \X CompoundIds}

\* the stores of the lookups: any herbs, any compounds, and at most MaxLinks
\* link rows, which may name a herb or a compound that is not in its table
LookupStores ==
    {[herbs |-> [i \in DOMAIN hs |-> HerbRow(hs[i])],
      phytochemicals |-> [i \in DOMAIN cs |-> CompoundRow(cs[i])],
      herb_phytochemical |-> ls] :
        <<hs, cs, ls>> \in {AscSeq(S) : S \in SUBSET HerbIds}
                           \X {AscSeq(S) : S \in SUBSET CompoundIds}
                           \X DistinctSeqs(AllLinkRows, MaxLinks)}

InitRequest ==
    /\ pc = "idle"
    /\ req = [op |-> "none", arg |-> <<>>]
    /\ herbs = <<>>
    /\ compounds = <<>>
    /\ ids = <<>>
    /\ hp_response = <<>>
    /\ documents = <<>>
    /\ meta = <<>>
    /\ rerank = <<>>
    /\ resp = NoResponse
    /\ calls = <<>>
    /\ hist = {}
    /\ nmut = 0
    /\ raised = <<>>

Init ==
    /\ store \in LookupStores
    /\ InitRequest

Next ==
    \/ GetHerb
    \/ RelatedCompoundsLinks
    \/ RelatedCompoundsFetch
    \/ GetHerbAssemble
    \/ CallRelatedCompounds
    \/ GetPhytochemical
    \/ RelatedHerbsLinks
    \/ RelatedHerbsFetch
    \/ GetPhytochemicalAssemble
    \/ CallRelatedHerbs

Spec == Init /\ [][Next]_vars

\* the stores of the searches: the first n herbs and the first m compounds
SearchStores ==
    {[herbs |-> [i \in 1..n |-> HerbRow(i)],
      phytochemicals |-> [i \in 1..m |-> CompoundRow(i)],
      herb_phytochemical |-> <<>>] :
        <<n, m>> \in (0..MaxSearchHerbs) \X (0..MaxSearchCompounds)}

InitSearch ==
    /\ store \in SearchStores
    /\ InitRequest

NextSearch ==
    \/ Search
    \/ SearchFetchCompounds
    \/ SearchPrepare
    \/ RerankReturns
    \/ RerankReturnsMore
    \/ RerankRaises
    \/ SearchCompile

SpecSearch == InitSearch /\ [][NextSearch]_vars

----------------------------------------------------------------------------
(* The store changes while a request is running.  The program only reads   *)
(* the store; its owner inserts and deletes rows, one row at a time.       *)

\* the rows that may be inserted: a herb or a compound whose identifier is
\* free, a link row that is not there yet
InsertableRows(st) ==
    {<<"herbs", HerbRow(i)>> : i \in HerbIds \ Range(HerbIdsOf(st.herbs))}
    \cup {<<"phytochemicals", CompoundRow(i)>> :
             i \in CompoundIds \ Range(CompoundIdsOf(st.phytochemicals))}
    \cup {<<"herb_phytochemical", l>> :
             l \in {r \in AllLinkRows : Len(st.herb_phytochemical) < MaxLinks}
                      \ Range(st.herb_phytochemical)}

\* the store after the insertion of a row at the end of a table
InsertRow(st, table, row) == [st EXCEPT ![table] = Append(@, row)]

\* the store after the deletion of the i-th row of a table
DeleteRow(st, table, i) ==
    [st EXCEPT ![table] = SubSeq(@, 1, i - 1) \o SubSeq(@, i + 1, Len(@))]

RequestRunning == pc \notin {"idle", "done"}

\* the owner of the store inserts a row
StoreInsert ==
    /\ RequestRunning
    /\ nmut < MaxMut
    /\ \E ins \in InsertableRows(store) : store' = InsertRow(store, ins[1], ins[2])
    /\ nmut' = nmut + 1
    /\ hist' = hist \cup {store'}
    /\ UNCHANGED <<pc, req, herbs, compounds, ids, hp_response, documents, meta, rerank, resp, calls, raised>>

\* the owner of the store deletes a row
StoreDelete ==
    /\ RequestRunning
    /\ nmut < MaxMut
    /\ \E table \in {"herbs", "phytochemicals", "herb_phytochemical"} :
         \E i \in DOMAIN store[table] : store' = DeleteRow(store, table, i)
    /\ nmut' = nmut + 1
    /\ hist' = hist \cup {store'}
    /\ UNCHANGED <<pc, req, herbs, compounds, ids, hp_response, documents, meta, rerank, resp, calls, raised>>

NextMut ==
    \/ GetHerb
    \/ RelatedCompoundsLinks
    \/ RelatedCompoundsFetch
    \/ GetHerbAssemble
    \/ GetPhytochemical
    \/ RelatedHerbsLinks
    \/ RelatedHerbsFetch
    \/ GetPhytochemicalAssemble
    \/ StoreInsert
    \/ StoreDelete

SpecMut == Init /\ [][NextMut]_vars

----------------------------------------------------------------------------
(* What the lookups are expected to return, stated on the store alone *)

\* q is a substring of name, letter case ignored
ContainsIgnoringCase(name, q) ==
    \E i \in 0..(Len(name) - Len(q)) :
        SubSeq(LowerStr(name), i + 1, i + Len(q)) = LowerStr(q)

\* the rows the name filter of the request matches
FilterMatchedHerbs == SelectHerbsIlike(store, ContainsPattern(req.arg))

FilterMatchedCompounds == SelectCompoundsIlike(store, ContainsPattern(req.arg))

\* the link rows of a herb whose compound is in table phytochemicals, in the store's order
LiveLinksOfHerb(hid) ==
    SelectSeq(store.herb_phytochemical,
              LAMBDA l : /\ l.herb_id = hid
                         /\ \E c \in Range(store.phytochemicals) : c.compound_id = l.compound_id)

LiveLinksOfCompound(cid) ==
    SelectSeq(store.herb_phytochemical,
              LAMBDA l : /\ l.compound_id = cid
                         /\ \E h \in Range(store.herbs) : h.herb_id = l.herb_id)

CompoundById(cid) == CHOOSE c \in Range(store.phytochemicals) : c.compound_id = cid

HerbById(hid) == CHOOSE h \in Range(store.herbs) : h.herb_id = hid

\* the phytochemicals list expected for a herb: one entry per live link row, in order
ExpectedPhytochemicals(hid) ==
    LET rows == LiveLinksOfHerb(hid) IN
    [k \in DOMAIN rows |->
        LET c == CompoundById(rows[k].compound_id) IN
        [compound_name |-> c.compound_name, function |-> c.function,
         compound_type |-> c.compound_type, source_url |-> c.source_url]]

\* the related_herbs list expected for a compound: one entry per live link row, in order
ExpectedRelatedHerbs(cid) ==
    LET rows == LiveLinksOfCompound(cid) IN
    [k \in DOMAIN rows |->
        LET h == HerbById(rows[k].herb_id) IN
        [herb_name |-> h.herb_name, scientific_name |-> h.scientific_name,
         uses |-> h.uses, source_url |-> h.source_url]]

HerbLookupDone == pc = "done" /\ req.op = "get_herb"

CompoundLookupDone == pc = "done" /\ req.op = "get_phytochemical"

\* a link row of the store that names a compound missing from its table
DanglingCompound(l) == \A c \in Range(store.phytochemicals) : c.compound_id # l.compound_id

----------------------------------------------------------------------------
(* C1: whenever the requested text is a substring (letter case ignored) of *)
(* at least one herb name, get_herb answers 200 with exactly one entry per *)
(* herb whose name contains the text, and each entry lists exactly the     *)
(* compounds the link table links to that herb.                            *)
C1_HerbLookupBySubstring ==
    LET matching == SelectSeq(store.herbs,
                              LAMBDA h : ContainsIgnoringCase(h.herb_name, req.arg))
    IN  (HerbLookupDone /\ matching # <<>>) =>
            /\ resp.status = 200
            /\ Len(resp.body) = Len(matching)
            /\ \A i \in DOMAIN matching :
                 \E j \in DOMAIN resp.body :
                    /\ resp.body[j].herb_name = matching[i].herb_name
                    /\ Range(resp.body[j].phytochemicals)
                         = Range(ExpectedPhytochemicals(matching[i].herb_id))

(* C2: the mirror of C1 for get_phytochemical: one entry per compound whose *)
(* name contains the requested text, each listing exactly the herbs linked *)
(* to that compound.                                                       *)
C2_CompoundLookupBySubstring ==
    LET matching == SelectSeq(store.phytochemicals,
                              LAMBDA c : ContainsIgnoringCase(c.compound_name, req.arg))
    IN  (CompoundLookupDone /\ matching # <<>>) =>
            /\ resp.status = 200
            /\ Len(resp.body) = Len(matching)
            /\ \A i \in DOMAIN matching :
                 \E j \in DOMAIN resp.body :
                    /\ resp.body[j].compound_name = matching[i].compound_name
                    /\ Range(resp.body[j].related_herbs)
                         = Range(ExpectedRelatedHerbs(matching[i].compound_id))

(* C3: a lookup ends with 404 and its fixed detail exactly when the name   *)
(* filter matched no row, and then it has read nothing but the name filter; *)
(* in every other case, a matched row without links included, it ends 200. *)
C3_NotFoundIffNoMatch ==
    /\ HerbLookupDone =>
         IF FilterMatchedHerbs = <<>>
         THEN /\ resp = [status |-> 404, detail |-> <<"Herb not found">>, body |-> <<>>]
              /\ calls = <<"herbs">>
         ELSE resp.status = 200
    /\ CompoundLookupDone =>
         IF FilterMatchedCompounds = <<>>
         THEN /\ resp = [status |-> 404, detail |-> <<"Compound not found">>, body |-> <<>>]
              /\ calls = <<"phytochemicals">>
         ELSE resp.status = 200

\* a herb lookup ended with 404 in a store that holds herbs and links
C3_Witness ==
    /\ HerbLookupDone
    /\ resp.status = 404
    /\ store.herbs # <<>>
    /\ store.herb_phytochemical # <<>>

(* C8: get_related_compounds called with no identifier, or with identifiers *)
(* that no link row names, returns the empty list and has read only the    *)
(* link table; get_related_herbs likewise.                                 *)
C8_NoLinksNoFetch ==
    /\ (/\ pc = "done"
        /\ req.op = "get_related_compounds"
        /\ \A l \in Range(store.herb_phytochemical) : l.herb_id \notin Range(req.arg))
         => (compounds = <<>> /\ calls = <<"herb_phytochemical">>)
    /\ (/\ pc = "done"
        /\ req.op = "get_related_herbs"
        /\ \A l \in Range(store.herb_phytochemical) : l.compound_id \notin Range(req.arg))
         => (herbs = <<>> /\ calls = <<"herb_phytochemical">>)

\* the helper was called with identifiers none of which has a link, in a
\* store that holds compounds and links of other herbs
C8_Witness ==
    /\ pc = "done"
    /\ req.op = "get_related_compounds"
    /\ req.arg # <<>>
    /\ store.herb_phytochemical # <<>>
    /\ store.phytochemicals # <<>>
    /\ \A l \in Range(store.herb_phytochemical) : l.herb_id \notin Range(req.arg)

(* C9: a link row whose compound (herb) is missing from the fetched list is *)
(* skipped: every matched herb gets exactly the entries of its other link  *)
(* rows, in their order, the empty list when none is left, and the request *)
(* ends with 200; the compound lookup likewise.                            *)
C9_MissingSkipped ==
    /\ (HerbLookupDone /\ FilterMatchedHerbs # <<>>) =>
         /\ resp.status = 200
         /\ Len(resp.body) = Len(FilterMatchedHerbs)
         /\ \A i \in DOMAIN FilterMatchedHerbs :
              resp.body[i].phytochemicals
                 = ExpectedPhytochemicals(FilterMatchedHerbs[i].herb_id)
    /\ (CompoundLookupDone /\ FilterMatchedCompounds # <<>>) =>
         /\ resp.status = 200
         /\ Len(resp.body) = Len(FilterMatchedCompounds)
         /\ \A i \in DOMAIN FilterMatchedCompounds :
              resp.body[i].related_herbs
                 = ExpectedRelatedHerbs(FilterMatchedCompounds[i].compound_id)

\* a herb lookup met a link row without its compound before a link row with it
C9_Witness ==
    /\ HerbLookupDone
    /\ resp.status = 200
    /\ Len(store.herb_phytochemical) = 2
    /\ store.herb_phytochemical[1].herb_id \in Range(ids)
    /\ store.herb_phytochemical[2].herb_id \in Range(ids)
    /\ DanglingCompound(store.herb_phytochemical[1])
    /\ ~DanglingCompound(store.herb_phytochemical[2])
    /\ \E i \in DOMAIN resp.body : Len(resp.body[i].phytochemicals) = 1

----------------------------------------------------------------------------
(* What a search is expected to return *)

SearchDone == pc = "done" /\ req.op = "search"

\* the rows of the ranker's reply whose score is above 0.2, in the reply's order
Qualifying == SelectSeq(rerank, LAMBDA r : r.relevance_score > MinRelevance)

\* the entity whose document stands at position i (from 0) of the documents
\* list: the herbs in fetch order, then the compounds
EntityAt(i) ==
    IF i < Len(herbs)
    THEN [type |-> "herb", name |-> herbs[i + 1].herb_name, info |-> herbs[i + 1].uses,
          source_url |-> herbs[i + 1].source_url]
    ELSE LET c == compounds[i + 1 - Len(herbs)] IN
         [type |-> "compound", name |-> c.compound_name, info |-> c.function,
          source_url |-> c.source_url]

(* C4: after a rerank call that succeeded, the response is 200 and its     *)
(* body is the reply's rows with score > 0.2, in the reply's order, each   *)
(* the {type, name, info, source_url} record at the row's index, cut to    *)
(* the first 5: never more than 5, and all of them when fewer than 5.      *)
C4_SearchResponse ==
    (SearchDone /\ raised = <<>>) =>
        /\ resp.status = 200
        /\ Len(resp.body) <= 5
        /\ Len(resp.body) = Min(5, Len(Qualifying))
        /\ \A k \in DOMAIN resp.body :
             /\ resp.body[k] = meta[Qualifying[k].index + 1]
             /\ DOMAIN resp.body[k] = {"type", "name", "info", "source_url"}

\* the ranker returned six rows, all above the threshold, and five were returned
C4_Witness ==
    /\ SearchDone
    /\ Len(rerank) > TopN
    /\ Len(Qualifying) = Len(rerank)
    /\ Len(resp.body) = 5

(* C5: when the rerank call raised, the search ends with 500, the detail   *)
(* "Cohere error: " followed by the error's message, and no result; the    *)
(* call was made once; and a search ends with 500 in that case only.       *)
C5_RerankErrorIs500 ==
    SearchDone =>
        /\ raised # <<>> =>
             /\ resp = [status |-> 500, detail |-> <<"Cohere error: ", raised[1]>>,
                        body |-> <<>>]
             /\ Len(SelectSeq(calls, LAMBDA c : c = "rerank")) = 1
        /\ resp.status = 500 => raised # <<>>

\* the rerank call raised although there were documents to rank
C5_Witness ==
    /\ SearchDone
    /\ raised # <<>>
    /\ Len(documents) > 1
    /\ resp.status = 500

(* C6: a search never ends with 404; when the rerank call did not raise it *)
(* ends with 200, with the empty list when no row scored above 0.2.        *)
C6_SearchNeverNotFound ==
    SearchDone =>
        /\ resp.status # 404
        /\ raised = <<>> => resp.status = 200
        /\ (raised = <<>> /\ Qualifying = <<>>) => resp = Ok(<<>>)

\* the ranker returned rows, none above the threshold, and the answer is 200 with []
C6_Witness ==
    /\ SearchDone
    /\ rerank # <<>>
    /\ Qualifying = <<>>
    /\ resp.status = 200
    /\ resp.body = <<>>

\* a search over a store with no herb and no compound ended with 200 and []
C6_EmptyStoreCase ==
    /\ SearchDone
    /\ store.herbs = <<>>
    /\ store.phytochemicals = <<>>
    /\ resp = Ok(<<>>)

(* C10: once documents and meta are built they have the same length,       *)
(* |herbs| + |compounds|, position i of both belongs to the same entity,   *)
(* herbs first in fetch order; so every returned record has type "herb"    *)
(* exactly when its row's index is below |herbs|, and carries the name,    *)
(* info and source_url of the entity whose document is at that index.      *)
C10_DocumentsMetaAligned ==
    /\ pc \in {"s_rerank", "s_results"} \/ SearchDone =>
         /\ Len(documents) = Len(herbs) + Len(compounds)
         /\ Len(meta) = Len(documents)
         /\ \A i \in DOMAIN herbs :
              /\ documents[i] = <<"Herb: ", herbs[i].herb_name, ". Uses: ", herbs[i].uses,
                                  ". Origin: ", herbs[i].origin>>
              /\ meta[i] = EntityAt(i - 1)
              /\ meta[i].type = "herb"
         /\ \A i \in DOMAIN compounds :
              /\ documents[Len(herbs) + i]
                   = <<"Compound: ", compounds[i].compound_name, ". Function: ",
                       compounds[i].function, ". Type: ", compounds[i].compound_type>>
              /\ meta[Len(herbs) + i] = EntityAt(Len(herbs) + i - 1)
              /\ meta[Len(herbs) + i].type = "compound"
    /\ (SearchDone /\ raised = <<>>) =>
         \A k \in DOMAIN resp.body :
            /\ resp.body[k].type = "herb" <=> Qualifying[k].index < Len(herbs)
            /\ resp.body[k] = EntityAt(Qualifying[k].index)

\* a compound was ranked before a herb and both were returned
C10_Witness ==
    /\ SearchDone
    /\ Len(resp.body) >= 2
    /\ resp.body[1].type = "compound"
    /\ resp.body[2].type = "herb"
    /\ Qualifying[1].index > Qualifying[2].index

----------------------------------------------------------------------------
(* A lookup run in one piece on one state of the store *)

HerbLookupOn(st, q) ==
    LET hs == SelectHerbsIlike(st, ContainsPattern(q))
        links == SelectLinksByHerbIds(st, HerbIdsOf(hs))
        cs == IF links = <<>> THEN <<>> ELSE SelectCompoundsByIds(st, CompoundIdsOf(links))
    IN  IF hs = <<>> THEN NotFound("Herb not found")
        ELSE Ok([i \in DOMAIN hs |-> HerbRecord(hs[i], CompoundMap(links, cs, <<>>))])

CompoundLookupOn(st, q) ==
    LET cs == SelectCompoundsIlike(st, ContainsPattern(q))
        links == SelectLinksByCompoundIds(st, CompoundIdsOf(cs))
        hs == IF links = <<>> THEN <<>> ELSE SelectHerbsByIds(st, HerbIdsOf(links))
    IN  IF cs = <<>> THEN NotFound("Compound not found")
        ELSE Ok([i \in DOMAIN cs |-> CompoundRecord(cs[i], HerbMap(links, hs, <<>>))])

(* C7: whatever rows the store's owner inserts or deletes between the      *)
(* reads of one lookup, the response is the one the lookup gives on a      *)
(* single state the store was in during the request.                       *)
C7_ResponseOfOneStoreState ==
    /\ HerbLookupDone => \E st \in hist : resp = HerbLookupOn(st, req.arg)
    /\ CompoundLookupDone => \E st \in hist : resp = CompoundLookupOn(st, req.arg)

\* while the store does not change, the response is the one of the store's state
C7_UnchangedStoreIsConsistent ==
    /\ (HerbLookupDone /\ nmut = 0) => resp = HerbLookupOn(store, req.arg)
    /\ (CompoundLookupDone /\ nmut = 0) => resp = CompoundLookupOn(store, req.arg)

====
